---- MODULE Spec2Model ----
(***************************************************************************)
(* Model of the M3/M4/M5 cutter power commands of Marlin                   *)
(* (Marlin/src/gcode/control/M3-M5.cpp) together with the two contexts     *)
(* they run between: the command context, which runs the G-code handlers   *)
(* and produces planner blocks, and the execution context (stepper ISR),   *)
(* which consumes the planner queue in FIFO order.                         *)
(*                                                                         *)
(* The handlers M3_M4 and M5 are translated from the source.  The cutter   *)
(* and planner primitives they call (set_enabled, set_power, apply_power,  *)
(* inline_power, power_to_range, upower_to_ocr, cpwr_to_upwr, synchronize, *)
(* buffer_sync_block, block production and execution) are not part of the  *)
(* file; they are modelled from the design document.                       *)
(***************************************************************************)
EXTENDS Integers, Sequences, FiniteSets

\* ------------------------------------------------------------ bounds
\* Capacity of the planner queue (number of blocks in flight).
MaxQueue == 2

\* ------------------------------------------------------------ constants
\* PWM duty cycle goes from 0 (off) to OcrMax (always on).
OcrMax == 255
\* Upper end of the unit power range (SPEED_POWER_MAX).
UnitMax == 4
\* Configured startup power, in configured power units.
SPEED_POWER_STARTUP == 3
\* "No embedded power" marker of a block.
NoPower == -1
\* SPINDLE_CHANGE_DIR: the modelled machine has a direction output.
SPINDLE_CHANGE_DIR == TRUE

\* S<power> arguments a command may carry: below range, zero, inside, above.
SValues == {-1, 0, 2, 5}

\* CutterMode
CUTTER_MODE_STANDARD == "STANDARD"
CUTTER_MODE_CONTINUOUS == "CONTINUOUS"
CUTTER_MODE_DYNAMIC == "DYNAMIC"
CutterModes == {CUTTER_MODE_STANDARD, CUTTER_MODE_CONTINUOUS, CUTTER_MODE_DYNAMIC}

\* Build configurations: SPINDLE_LASER_USE_PWM, SPINDLE_SERVO, or neither.
PwmCapable == "PWM"
ServoPositional == "SERVO"
BinaryOnOff == "BINARY"
Configs == {PwmCapable, ServoPositional, BinaryOnOff}

\* Inline delivery strategies: LASER_POWER_SYNC defined, or not.
PowerSync == "POWER_SYNC"
PerBlock == "PER_BLOCK"
Strategies == {PowerSync, PerBlock}

VARIABLES
  cfg,          \* build configuration (PWM / servo / on-off)
  strategy,     \* build configuration (LASER_POWER_SYNC or not)
  cutter_mode,  \* cutter.cutter_mode
  enabled,      \* cutter enable state
  reverse,      \* direction output: TRUE = reverse
  unitPower,    \* cutter.unitPower
  power,        \* cutter.power: hardware value last written / queued
  menuPower,    \* cutter.menuPower
  output,       \* value on the hardware output
  inlinePower,  \* power the block producer embeds into the next blocks
  queue,        \* planner queue, head = next (or current) block of the stepper
  running,      \* TRUE while the stepper executes the block at the head
  pc,           \* position of the command context
  cmd,          \* parameters of the command being processed
  inlineReq,    \* history: hardware value requested by the inline activation
                \* from Standard that is the latest call, else NoPower
  offSnap       \* history: number n (up to 2) of M5 calls without 'I' that
                \* ran one after the other with no command between, and the
                \* state st the first of them left

vars == <<cfg, strategy, cutter_mode, enabled, reverse, unitPower,
          power, menuPower, output, inlinePower, queue, running, pc, cmd, inlineReq,
          offSnap>>

\* ------------------------------------------------------------ conversions
\* cutter.power_to_range: clamp a requested power into [0, UnitMax].
power_to_range(p) == IF p < 0 THEN 0 ELSE IF p > UnitMax THEN UnitMax ELSE p

\* cutter.upower_to_ocr: linear map of the unit range onto the duty cycle range.
upower_to_ocr(u) == (u * OcrMax) \div UnitMax

\* cutter.cpwr_to_upwr: configured power to unit power.
cpwr_to_upwr(c) == power_to_range(c)

\* The hardware value of a unit power under a build configuration:
\* PWM converts, servo uses the unit value directly, on/off is 255 or 0.
toHardwareValue(u, c) ==
  IF c = PwmCapable THEN upower_to_ocr(u)
  ELSE IF c = ServoPositional THEN u
  ELSE IF u > 0 THEN OcrMax ELSE 0

\* ------------------------------------------------------------ commands
NoCmd == [op |-> "none", isM4 |-> FALSE, seenI |-> FALSE, seenS |-> FALSE,
          s |-> 0, mode0 |-> CUTTER_MODE_STANDARD]

\* No run of M5 calls without 'I' is under way.
NoSnap == [n |-> 0, st |-> <<>>]

\* Variant: M3_M4 never waits for the planner.
M3NeedsSync_Never(mode) == FALSE

\* M3_M4 waits for the planner only when it is entered in standard mode.
M3NeedsSync(mode) == mode = CUTTER_MODE_STANDARD

\* Variant: M5 does not wait for the planner.
M5NeedsSync_Never(mode) == FALSE

\* M5 always waits for the planner.
M5NeedsSync(mode) == TRUE

\* Variant: the two inline variants exchanged.
M3Mode_Swapped(mode, seenI, isM4) ==
  IF seenI
    THEN (IF isM4 THEN CUTTER_MODE_CONTINUOUS ELSE CUTTER_MODE_DYNAMIC)
    ELSE mode

\* Variant: in an inline mode the variant follows the command without 'I' too.
M3Mode_FollowsCommand(mode, seenI, isM4) ==
  IF seenI \/ mode # CUTTER_MODE_STANDARD
    THEN (IF isM4 THEN CUTTER_MODE_DYNAMIC ELSE CUTTER_MODE_CONTINUOUS)
    ELSE mode

\* The mode after the 'I' handling of M3_M4.
M3Mode(mode, seenI, isM4) ==
  IF seenI
    THEN (IF isM4 THEN CUTTER_MODE_DYNAMIC ELSE CUTTER_MODE_CONTINUOUS)
    ELSE mode

\* Variant: M5 I clears the enable flag but keeps the mode.
M5Mode_Keep(mode, seenI) == mode

\* Variant: M5 leaves inline mode with or without 'I'.
M5Mode_Always(mode, seenI) == CUTTER_MODE_STANDARD

\* The mode after the 'I' handling of M5.
M5Mode(mode, seenI) == IF seenI THEN CUTTER_MODE_STANDARD ELSE mode

\* Variant: the S value stored without clamping.
SUnitPower_Unclamped(s) == s

\* Unit power stored for an explicit S value.
SUnitPower(s) == power_to_range(s)

\* Variant: without S the startup power is taken in every mode.
get_s_power_AlwaysStartup(m, st, c) ==
  IF c.seenS
    THEN LET u == SUnitPower(c.s) IN
         [unitPower |-> u,
          power     |-> IF cfg = ServoPositional THEN upower_to_ocr(u)
                        ELSE IF m = CUTTER_MODE_STANDARD
                          THEN (IF cfg = PwmCapable THEN upower_to_ocr(u)
                                ELSE IF u > 0 THEN OcrMax ELSE 0)
                        ELSE st.power,
          menuPower |-> u]
    ELSE [st EXCEPT !.unitPower = cpwr_to_upwr(SPEED_POWER_STARTUP)]

\* Variant: an S value is stored without being mirrored into menuPower.
get_s_power_NoMirror(m, st, c) ==
  IF c.seenS
    THEN LET u == SUnitPower(c.s) IN
         [unitPower |-> u,
          power     |-> IF cfg = ServoPositional THEN upower_to_ocr(u)
                        ELSE IF m = CUTTER_MODE_STANDARD
                          THEN (IF cfg = PwmCapable THEN upower_to_ocr(u)
                                ELSE IF u > 0 THEN OcrMax ELSE 0)
                        ELSE st.power,
          menuPower |-> st.menuPower]
    ELSE IF m = CUTTER_MODE_STANDARD
      THEN [st EXCEPT !.unitPower = cpwr_to_upwr(SPEED_POWER_STARTUP)]
      ELSE st

\* The lambda get_s_power, run with mode m on the power fields st
\* ([unitPower, power, menuPower]); the result is the updated fields.
get_s_power(m, st, c) ==
  IF c.seenS
    THEN LET u == SUnitPower(c.s) IN
         [unitPower |-> u,
          power     |-> IF cfg = ServoPositional THEN upower_to_ocr(u)
                        ELSE IF m = CUTTER_MODE_STANDARD
                          THEN (IF cfg = PwmCapable THEN upower_to_ocr(u)
                                ELSE IF u > 0 THEN OcrMax ELSE 0)
                        ELSE st.power,
          menuPower |-> u]
    ELSE IF m = CUTTER_MODE_STANDARD
      THEN [st EXCEPT !.unitPower = cpwr_to_upwr(SPEED_POWER_STARTUP)]
      ELSE st

\* Variant: the dispatch converts the unit power read before get_s_power ran.
ReturnedPower_Stale(g, st0) == st0.unitPower

\* The value get_s_power returns to the dispatch: the unit power it left.
ReturnedPower(g, st0) == g.unitPower

\* Variant: set_reverse placed after the mode branches, not in the standard one.
M3Reverse_Always(inl, isM4, rev) == IF SPINDLE_CHANGE_DIR THEN isM4 ELSE rev

\* The direction output after M3_M4: set_reverse(is_M4) is part of the
\* standard-mode branch only.
M3Reverse(inl, isM4, rev) == IF ~inl /\ SPINDLE_CHANGE_DIR THEN isM4 ELSE rev

\* ------------------------------------------------------------ planner blocks
\* Variant: the marker queued before cutter.power is assigned.
MarkerPower_Stale(newPower, oldPower) == oldPower

\* The power a sync marker carries: cutter.power is assigned first and the
\* marker is queued after it, so the marker takes the new value.
MarkerPower(newPower, oldPower) == newPower

\* buffer_sync_block(BLOCK_FLAG_LASER_PWR): a zero-motion block queueing
\* cutter.power.  hist records the value computed by the enqueuing call.
SyncBlock(p, h) == [kind |-> "sync", power |-> p, hist |-> h]

\* A motion block: under the per-block strategy a block produced in an inline
\* mode embeds the producer's current inline power.
MoveBlock(m, ip, h) ==
  [kind |-> "move",
   power |-> IF strategy = PerBlock /\ m # CUTTER_MODE_STANDARD THEN ip ELSE NoPower,
   hist |-> h]

\* Variant: the stepper reads the producer's live inline power, not the block's.
ExecOutput_Live(b, pending, ip, out) ==
  IF b.power # NoPower THEN (IF b.kind = "sync" THEN pending ELSE ip) ELSE out

\* The value on the hardware output once the execution context has taken
\* block b: the power the block carries, if it carries one.
ExecOutput(b, pending, ip, out) ==
  IF b.power # NoPower THEN b.power ELSE out

\* Variant: under the per-block strategy the dispatch also rewrites the power
\* of the blocks already queued.
InlineDispatch_Retro(q, v, old, h) ==
  IF strategy = PowerSync THEN Append(q, SyncBlock(MarkerPower(v, old), h))
  ELSE [i \in DOMAIN q |->
          IF q[i].power # NoPower THEN [q[i] EXCEPT !.power = v] ELSE q[i]]

\* The queue after the inline dispatch of hardware value v.
InlineDispatch(q, v, old, h) ==
  IF strategy = PowerSync THEN Append(q, SyncBlock(MarkerPower(v, old), h)) ELSE q

\* ------------------------------------------------------------ initial state
Init ==
  /\ cfg \in Configs
  /\ strategy \in Strategies
  /\ cutter_mode = CUTTER_MODE_STANDARD
  /\ enabled = FALSE
  /\ reverse = FALSE
  /\ unitPower = 0
  /\ power = 0
  /\ menuPower = 0
  /\ output = 0
  /\ inlinePower = 0
  /\ queue = <<>>
  /\ running = FALSE
  /\ pc = "idle"
  /\ cmd = NoCmd
  /\ inlineReq = NoPower
  /\ offSnap = NoSnap

\* ------------------------------------------------------------ command context
\* The dispatcher hands an M3 or M4 to the handler.
M3Call ==
  /\ pc = "idle"
  /\ \E isM4 \in BOOLEAN, seenI \in BOOLEAN, seenS \in BOOLEAN, s \in SValues :
       cmd' = [op |-> "M3", isM4 |-> isM4, seenI |-> seenI, seenS |-> seenS,
               s |-> IF seenS THEN s ELSE 0, mode0 |-> cutter_mode]
  /\ pc' = "M3"
  /\ inlineReq' = NoPower
  /\ offSnap' = NoSnap
  /\ UNCHANGED <<cfg, strategy, cutter_mode, enabled, reverse, unitPower,
                 power, menuPower, output, inlinePower, queue, running>>

\* GcodeSuite::M3_M4.  synchronize() returns when the queue is empty;
\* buffer_sync_block waits for a free slot of the queue.
M3Run ==
  /\ pc = "M3"
  /\ M3NeedsSync(cutter_mode) => queue = <<>>
  /\ LET m1     == M3Mode(cutter_mode, cmd.seenI, cmd.isM4)
         inl    == m1 \in {CUTTER_MODE_CONTINUOUS, CUTTER_MODE_DYNAMIC}
         st0    == [unitPower |-> unitPower, power |-> power, menuPower |-> menuPower]
         g      == IF inl \/ cfg # BinaryOnOff THEN get_s_power(m1, st0, cmd) ELSE st0
         ret    == ReturnedPower(g, st0)
         ocr    == upower_to_ocr(ret)
     IN
     /\ cutter_mode' = m1
     /\ unitPower' = g.unitPower
     /\ menuPower' = g.menuPower
     /\ IF inl
          THEN /\ strategy = PowerSync => Len(queue) < MaxQueue
               /\ enabled' = IF cmd.seenI THEN TRUE ELSE enabled
               /\ power' = ocr
               /\ inlinePower' = IF strategy = PerBlock THEN ocr ELSE inlinePower
               /\ queue' = InlineDispatch(queue, ocr, power, ocr)
               /\ inlineReq' = IF cmd.seenI /\ cmd.seenS /\ cmd.mode0 = CUTTER_MODE_STANDARD
                                 THEN ocr ELSE NoPower
               /\ reverse' = M3Reverse(TRUE, cmd.isM4, reverse)
               /\ UNCHANGED output
          ELSE /\ enabled' = IF cfg = BinaryOnOff THEN TRUE ELSE enabled
               /\ power' = IF cfg = PwmCapable THEN ocr
                           ELSE IF cfg = ServoPositional THEN ret
                           ELSE OcrMax
               /\ output' = power'
               /\ reverse' = M3Reverse(FALSE, cmd.isM4, reverse)
               /\ UNCHANGED <<inlinePower, inlineReq, queue>>
  /\ pc' = "M3_done"
  /\ UNCHANGED <<cfg, strategy, running, cmd, offSnap>>

\* The dispatcher hands an M5 to the handler.
M5Call ==
  /\ pc = "idle"
  /\ \E seenI \in BOOLEAN :
       cmd' = [NoCmd EXCEPT !.op = "M5", !.seenI = seenI, !.mode0 = cutter_mode]
  /\ pc' = "M5"
  /\ inlineReq' = NoPower
  /\ UNCHANGED <<cfg, strategy, cutter_mode, enabled, reverse, unitPower,
                 power, menuPower, output, inlinePower, queue, running, offSnap>>

\* Variant: apply_power(0) reaches the hardware output in standard mode only.
M5WritesOutput_StandardOnly(m) == m = CUTTER_MODE_STANDARD

\* apply_power(0) kills the power output in either mode.
M5WritesOutput(m) == TRUE

\* The state a power-off is compared on.
OffState(m, en, rev, up, pw, q) ==
  [mode |-> m, enabled |-> en, reverse |-> rev, unitPower |-> up, power |-> pw,
   queue |-> q]

\* GcodeSuite::M5.  synchronize() returns when the queue is empty; 'I' clears
\* the inline mode; apply_power(0) sets the output to 0 and leaves the mode,
\* the unit power and the producer's inline power as they are.
M5Run ==
  /\ pc = "M5"
  /\ M5NeedsSync(cutter_mode) => queue = <<>>
  /\ cutter_mode' = M5Mode(cutter_mode, cmd.seenI)
  /\ enabled' = IF cmd.seenI THEN FALSE ELSE enabled
  /\ power' = 0
  /\ output' = IF M5WritesOutput(cutter_mode') THEN 0 ELSE output
  /\ offSnap' = IF cmd.seenI THEN NoSnap
                ELSE IF offSnap.n = 0
                  THEN [n |-> 1,
                        st |-> OffState(cutter_mode', enabled', reverse, unitPower,
                                        power', queue)]
                  ELSE [offSnap EXCEPT !.n = 2]
  /\ pc' = "M5_done"
  /\ UNCHANGED <<cfg, strategy, reverse, unitPower, menuPower, inlinePower, queue,
                 running, cmd, inlineReq>>

\* The handler returns to the dispatcher.
Return ==
  /\ pc \in {"M3_done", "M5_done"}
  /\ pc' = "idle"
  /\ cmd' = NoCmd
  /\ UNCHANGED <<cfg, strategy, cutter_mode, enabled, reverse, unitPower,
                 power, menuPower, output, inlinePower, queue, running, inlineReq, offSnap>>

\* A motion command (G0/G1/G2/G3) produces one block.
Move ==
  /\ pc = "idle"
  /\ Len(queue) < MaxQueue
  /\ queue' = Append(queue, MoveBlock(cutter_mode, inlinePower, inlineReq))
  /\ offSnap' = NoSnap
  /\ UNCHANGED <<cfg, strategy, cutter_mode, enabled, reverse, unitPower,
                 power, menuPower, output, inlinePower, running, pc, cmd, inlineReq>>

\* ------------------------------------------------------------ execution context
\* The stepper takes the block at the head of the queue and applies its power.
ExecStart ==
  /\ queue # <<>>
  /\ ~running
  /\ running' = TRUE
  /\ output' = ExecOutput(Head(queue), power, inlinePower, output)
  /\ UNCHANGED <<cfg, strategy, cutter_mode, enabled, reverse, unitPower,
                 power, menuPower, inlinePower, queue, pc, cmd, inlineReq, offSnap>>

\* The stepper has finished the block and releases it.
ExecDone ==
  /\ running
  /\ running' = FALSE
  /\ queue' = Tail(queue)
  /\ UNCHANGED <<cfg, strategy, cutter_mode, enabled, reverse, unitPower,
                 power, menuPower, output, inlinePower, pc, cmd, inlineReq, offSnap>>

Next ==
  \/ M3Call
  \/ M3Run
  \/ M5Call
  \/ M5Run
  \/ Return
  \/ Move
  \/ ExecStart
  \/ ExecDone

Spec == Init /\ [][Next]_vars

\* The initial states of the PWM-capable build.
FairInit ==
  /\ Init
  /\ cfg = PwmCapable

\* The stepper is driven by a timer and the command context runs a handler
\* whenever the handler is not blocked: each of these steps is taken if it
\* stays possible.  The waits read the queue only, not the power values, so
\* the behaviours are those of the PWM build, under either inline strategy.
FairSpec ==
  /\ FairInit
  /\ [][Next]_vars
  /\ WF_vars(ExecStart)
  /\ WF_vars(ExecDone)
  /\ WF_vars(M3Run)
  /\ WF_vars(M5Run)

\* ------------------------------------------------------------ properties
InlineModes == {CUTTER_MODE_CONTINUOUS, CUTTER_MODE_DYNAMIC}

\* The block the stepper is executing is a block of kind k.
Executing(k) == running /\ Head(queue).kind = k

\* C1: every immediate hardware write of the command context (the standard
\* branch of M3_M4, the zero write of M5) is made with the planner queue
\* empty and no block in execution, so the execution context has nothing to
\* apply at the same time.
C1_ImmediateWriteAfterSync ==
  /\ (pc = "M3_done" /\ cutter_mode = CUTTER_MODE_STANDARD) => (queue = <<>> /\ ~running)
  /\ pc = "M5_done" => (queue = <<>> /\ ~running /\ output = 0)

\* An M3 in standard mode has written a non-zero power to the output.
C1_Witness ==
  /\ pc = "M3_done"
  /\ cutter_mode = CUTTER_MODE_STANDARD
  /\ output = power
  /\ output > 0

\* C2: under power sync the value computed by an inline activation reaches
\* the output no earlier than the marker the same call queued: the call
\* leaves the output alone, and a marker in execution has applied the value
\* computed by the call that queued it, whatever later calls stored.
C2_MarkerAppliesOwnValue ==
  /\ [](Executing("sync") => output = Head(queue).hist)
  /\ [][(pc = "M3" /\ pc' = "M3_done" /\ cutter_mode' \in InlineModes)
          => output' = output]_vars

\* A marker is in execution while a later call has already stored another
\* value and queued its own marker.
C2_Witness ==
  /\ strategy = PowerSync
  /\ Executing("sync")
  /\ Len(queue) >= 2
  /\ queue[2].kind = "sync"
  /\ power # Head(queue).hist
  /\ output = Head(queue).hist

\* Every block of q is still in r, at the same distance from the tail end of
\* production: r is q, or q without its head, or either with blocks appended.
KeepsBlocks(q, r) ==
  \/ /\ Len(r) >= Len(q)
     /\ SubSeq(r, 1, Len(q)) = q
  \/ /\ q # <<>>
     /\ Len(r) >= Len(q) - 1
     /\ SubSeq(r, 1, Len(q) - 1) = Tail(q)

\* C3: under the per-block strategy a motion block produced in an inline mode
\* stores the inline power current at its production, no later step changes
\* the power stored in a queued block, and a block in execution has applied
\* the power it stores.
C3_BlockKeepsPower ==
  /\ [][strategy = PerBlock =>
          /\ KeepsBlocks(queue, queue')
          /\ (Len(queue') = Len(queue) + 1 /\ cutter_mode \in InlineModes)
               => queue'[Len(queue')].power = inlinePower]_vars
  /\ []((strategy = PerBlock /\ Executing("move") /\ Head(queue).power # NoPower)
          => output = Head(queue).power)

\* A block runs with its stored power after a later activation has changed
\* the inline power.
C3_Witness ==
  /\ strategy = PerBlock
  /\ Executing("move")
  /\ Head(queue).power # NoPower
  /\ inlinePower # Head(queue).power
  /\ output = Head(queue).power

\* C4: the mode starts as standard; M3 I from standard ends in continuous
\* inline mode, M4 I from standard in dynamic inline mode, and M5 I from
\* either inline mode ends in standard mode.
C4_ModeTransitions ==
  /\ cutter_mode = CUTTER_MODE_STANDARD
  /\ []((pc = "M3_done" /\ cmd.seenI /\ cmd.mode0 = CUTTER_MODE_STANDARD)
          => cutter_mode = IF cmd.isM4 THEN CUTTER_MODE_DYNAMIC
                                       ELSE CUTTER_MODE_CONTINUOUS)
  /\ []((pc = "M5_done" /\ cmd.seenI /\ cmd.mode0 \in InlineModes)
          => cutter_mode = CUTTER_MODE_STANDARD)

\* An M4 I entered in standard mode has ended in dynamic inline mode.
C4_Witness ==
  /\ pc = "M3_done"
  /\ cmd.seenI
  /\ cmd.isM4
  /\ cmd.mode0 = CUTTER_MODE_STANDARD
  /\ cutter_mode = CUTTER_MODE_DYNAMIC

\* C5: whenever the mode is an inline mode the cutter is enabled; an M5
\* without 'I' in an inline mode leaves it enabled.
C5_InlineImpliesEnabled == cutter_mode # CUTTER_MODE_STANDARD => enabled

\* An M5 without 'I' has run in an inline mode.
C5_Witness ==
  /\ pc = "M5_done"
  /\ ~cmd.seenI
  /\ cmd.mode0 \in InlineModes
  /\ cutter_mode \in InlineModes
  /\ enabled

\* C6: after every M5 the hardware value is 0; the mode is standard
\* afterwards only if it was standard before or 'I' was given, and an M5
\* without 'I' leaves the mode as it was.
C6_PowerOff ==
  pc = "M5_done" =>
    /\ power = 0
    /\ cutter_mode = CUTTER_MODE_STANDARD
         => (cmd.mode0 = CUTTER_MODE_STANDARD \/ cmd.seenI)
    /\ ~cmd.seenI => cutter_mode = cmd.mode0

\* An M5 without 'I' has run in continuous inline mode with a non-zero unit
\* power set.
C6_Witness ==
  /\ pc = "M5_done"
  /\ ~cmd.seenI
  /\ cmd.mode0 = CUTTER_MODE_CONTINUOUS
  /\ cutter_mode = CUTTER_MODE_CONTINUOUS
  /\ unitPower > 0
  /\ power = 0

\* C7 as stated, for the PWM configuration: in every state the hardware
\* value is the conversion of the current unit power.
C7_AlwaysDerived ==
  cfg = PwmCapable => power = toHardwareValue(unitPower, cfg)

\* C7, amended: with PWM the hardware value is the conversion of the unit
\* power after every M3/M4; M5 sets the hardware value to 0 and leaves the
\* unit power as it was; no other step changes either of them.
C7_DerivedUntilPowerOff ==
  /\ []((cfg = PwmCapable /\ pc = "M3_done")
          => power = toHardwareValue(unitPower, cfg))
  /\ [][(pc = "M5" /\ pc' = "M5_done") => (power' = 0 /\ unitPower' = unitPower)]_vars
  /\ [][(~(pc = "M3" /\ pc' = "M3_done") /\ ~(pc = "M5" /\ pc' = "M5_done"))
          => (power' = power /\ unitPower' = unitPower)]_vars

\* With PWM, an inline M3 S has stored a unit power other than the one set
\* before and its conversion is the hardware value.
C7_Witness ==
  /\ cfg = PwmCapable
  /\ pc = "M3_done"
  /\ cutter_mode \in InlineModes
  /\ cmd.seenS
  /\ unitPower = 2
  /\ inlineReq = NoPower
  /\ power = toHardwareValue(unitPower, cfg)
  /\ power > 0

\* C8: without PWM and servo, an M3 in standard mode with S > 0 ends with
\* hardware value 255 and with S0 ends with hardware value 0.
C8_BinaryFollowsS ==
  (pc = "M3_done" /\ cfg = BinaryOnOff /\ cutter_mode = CUTTER_MODE_STANDARD /\ cmd.seenS)
    => power = IF power_to_range(cmd.s) > 0 THEN OcrMax ELSE 0

\* C9: the unit power stays within [0, UnitMax] and the hardware value and
\* the output within [0, OcrMax] whatever S values the commands carry, and
\* the mode is always one of the three operating modes.
C9_Clamped ==
  /\ unitPower \in 0..UnitMax
  /\ menuPower \in 0..UnitMax
  /\ power \in 0..OcrMax
  /\ output \in 0..OcrMax
  /\ inlinePower \in 0..OcrMax
  /\ cutter_mode \in CutterModes

\* An M3 with an S value above the range has stored the upper range bound.
C9_Witness ==
  /\ pc = "M3_done"
  /\ cmd.seenS
  /\ cmd.s > UnitMax
  /\ unitPower = UnitMax
  /\ power = toHardwareValue(UnitMax, cfg)

C11_PowerOffIdempotent ==
  /\ (pc = "M5_done" /\ ~cmd.seenI) => (power = 0 /\ cutter_mode = cmd.mode0)
  /\ offSnap.n = 2 =>
       offSnap.st = OffState(cutter_mode, enabled, reverse, unitPower, power, queue)

\* The second of two successive M5 has run in an inline mode with a unit
\* power set.
C11_Witness ==
  /\ pc = "M5_done"
  /\ offSnap.n = 2
  /\ cutter_mode \in InlineModes
  /\ unitPower > 0
  /\ power = 0

\* C12: with the stepper consuming the queue, every M5 and every M3/M4
\* entered in standard mode returns; the wait of such a call ends only with
\* the queue empty, so it does not end while blocks remain queued.
C12_SyncReturns ==
  /\ (pc = "M5") ~> (pc = "M5_done")
  /\ (pc = "M3" /\ cutter_mode = CUTTER_MODE_STANDARD) ~> (pc = "M3_done")
  /\ [][((pc = "M5" /\ pc' = "M5_done")
           \/ (pc = "M3" /\ cutter_mode = CUTTER_MODE_STANDARD /\ pc' = "M3_done"))
          => (queue = <<>> /\ ~running)]_vars

\* An M5 is blocked in synchronize() behind a full queue.
C12_Witness ==
  /\ pc = "M5"
  /\ Len(queue) = MaxQueue
  /\ running
  /\ ~ENABLED M5Run

\* An M5 without 'I' takes its step in an inline mode.
InlinePowerOffStep ==
  pc = "M5" /\ pc' = "M5_done" /\ ~cmd.seenI /\ cutter_mode \in InlineModes

\* C13 as stated: an M5 without 'I' in an inline mode leaves the output as it
\* is and sends the zero the way an inline M3 S0 would: a marker carrying 0
\* under power sync, the producer's inline power under the per-block strategy.
C13_ZeroThroughInlinePath ==
  [][InlinePowerOffStep =>
       /\ output' = output
       /\ strategy = PowerSync => queue' = Append(queue, SyncBlock(0, 0))
       /\ strategy = PerBlock => inlinePower' = 0]_vars

\* C13, amended: an M5 without 'I' in an inline mode sets the output to 0 at
\* once, after the queue has drained; it queues no marker, leaves the
\* producer's inline power as it was and stays in the inline mode.
C13_ZeroWrittenAtOnce ==
  /\ []((pc = "M5_done" /\ ~cmd.seenI /\ cmd.mode0 \in InlineModes)
          => (output = 0 /\ queue = <<>> /\ ~running /\ cutter_mode = cmd.mode0))
  /\ [][InlinePowerOffStep => (inlinePower' = inlinePower /\ queue' = queue)]_vars

\* Under the per-block strategy an M5 without 'I' has set the output to 0
\* while the producer still holds a non-zero inline power.
C13_Witness ==
  /\ pc = "M5_done"
  /\ ~cmd.seenI
  /\ cutter_mode \in InlineModes
  /\ strategy = PerBlock
  /\ inlinePower > 0
  /\ output = 0
  /\ power = 0

\* An M3/M4 takes its step.
ActivateStep == pc = "M3" /\ pc' = "M3_done"

\* C14: an M3/M4 that ends in an inline mode leaves the hardware output and
\* the direction output as they were; an M3/M4 changes the output at once
\* only when it ends in standard mode.
C14_InlineLeavesOutputs ==
  [][ActivateStep =>
       /\ cutter_mode' \in InlineModes => (output' = output /\ reverse' = reverse)
       /\ (output' # output \/ reverse' # reverse)
            => cutter_mode' = CUTTER_MODE_STANDARD]_vars

\* An M4 has ended in an inline mode with a new hardware value handed to the
\* queue, the output and the forward direction untouched.
C14_Witness ==
  /\ pc = "M3_done"
  /\ cmd.isM4
  /\ cutter_mode \in InlineModes
  /\ ~reverse
  /\ power > 0
  /\ output # power

\* C15: an M3/M4 without S that ends in standard mode leaves the unit power
\* at the configured startup power, whatever it was before, and the
\* conversion of that power as hardware value on the output, under each of
\* the three build configurations.
C15_StartupPower ==
  (pc = "M3_done" /\ cutter_mode = CUTTER_MODE_STANDARD /\ ~cmd.seenS)
    => /\ unitPower = cpwr_to_upwr(SPEED_POWER_STARTUP)
       /\ power = toHardwareValue(unitPower, cfg)
       /\ output = power

\* C16: an M3/M4 without S that ends in an inline mode, the call entering
\* the inline mode included, leaves the unit power as it was and hands the
\* conversion of that unit power to the queue: as the marker's power under
\* power sync, as the producer's inline power under the per-block strategy.
C16_InlineKeepsUnitPower ==
  [][(ActivateStep /\ ~cmd.seenS /\ cutter_mode' \in InlineModes) =>
       /\ unitPower' = unitPower
       /\ power' = upower_to_ocr(unitPower)
       /\ strategy = PowerSync
            => queue' = Append(queue, SyncBlock(upower_to_ocr(unitPower),
                                                upower_to_ocr(unitPower)))
       /\ strategy = PerBlock
            => (inlinePower' = upower_to_ocr(unitPower) /\ queue' = queue)]_vars

\* An M3 I without S, entered in standard mode, has kept the unit power set
\* by an earlier S value and handed over its conversion.
C16_Witness ==
  /\ pc = "M3_done"
  /\ cmd.seenI
  /\ ~cmd.seenS
  /\ cmd.mode0 = CUTTER_MODE_STANDARD
  /\ cutter_mode \in InlineModes
  /\ unitPower = 2
  /\ power = upower_to_ocr(2)

\* C17: the mode changes only in an M3/M4 with 'I', which sets the inline
\* variant of its command (M3 continuous, M4 dynamic), and in an M5 with 'I',
\* which sets standard mode; M3/M4 and M5 without 'I' and every other step
\* leave the mode as it is.
C17_ModeChangesOnlyWithI ==
  /\ [][cutter_mode' # cutter_mode =>
          \/ ActivateStep /\ cmd.seenI
          \/ pc = "M5" /\ pc' = "M5_done" /\ cmd.seenI
                /\ cutter_mode' = CUTTER_MODE_STANDARD]_vars
  /\ [][(ActivateStep /\ cmd.seenI) =>
          cutter_mode' = IF cmd.isM4 THEN CUTTER_MODE_DYNAMIC
                                     ELSE CUTTER_MODE_CONTINUOUS]_vars

\* An M4 without 'I' has run in continuous inline mode and left it so.
C17_Witness ==
  /\ pc = "M3_done"
  /\ cmd.isM4
  /\ ~cmd.seenI
  /\ cmd.mode0 = CUTTER_MODE_CONTINUOUS
  /\ cutter_mode = CUTTER_MODE_CONTINUOUS

\* C18: menuPower changes only in an M3/M4 that carries an S value, and is
\* then the clamped S value the call stored as unit power; after every M3/M4
\* with S menuPower equals the unit power; M3/M4 without S, M5 and every
\* other step leave menuPower as it is, also when they change the unit power.
C18_MenuPowerMirror ==
  /\ [][menuPower' # menuPower =>
          (ActivateStep /\ cmd.seenS /\ menuPower' = power_to_range(cmd.s))]_vars
  /\ []((pc = "M3_done" /\ cmd.seenS)
          => (menuPower = unitPower /\ menuPower \in 0..UnitMax))
  /\ []((pc = "M3_done" /\ cmd.seenS
           /\ (cfg # BinaryOnOff \/ cutter_mode \in InlineModes))
          => menuPower = power_to_range(cmd.s))

\* An M3 without S in standard mode has set the unit power to the startup
\* power and left menuPower at the S value mirrored by an earlier call.
C18_Witness ==
  /\ pc = "M3_done"
  /\ ~cmd.seenS
  /\ cutter_mode = CUTTER_MODE_STANDARD
  /\ unitPower = cpwr_to_upwr(SPEED_POWER_STARTUP)
  /\ menuPower = 2

TypeOK ==
  /\ cutter_mode \in CutterModes
  /\ enabled \in BOOLEAN
  /\ pc \in {"idle", "M3", "M3_done", "M5", "M5_done"}
  /\ Len(queue) <= MaxQueue
  /\ running => queue # <<>>
====
